---- MODULE Spec2Model ----
(***************************************************************************)
(* PIP identity ingester (src/core/ingester.py): the validator             *)
(* validate_identity and the normalizer normalize_identity, as operators   *)
(* over JSON-decoded values, and a state machine that draws a document and *)
(* applies them; and ingest_identity, the pipeline that fetches a document *)
(* and runs both on it, as a second state machine (IngestSpec).            *)
(*                                                                         *)
(* A Python call either returns a value or raises; every operator that     *)
(* models code which can raise yields an outcome that says which.          *)
(***************************************************************************)
EXTENDS Integers, Sequences, FiniteSets, TLC

VARIABLES
    doc,      \* the JSON-decoded value handed to the validator / normalizer
    vres,     \* outcome of validate_identity(doc)
    nres,     \* outcome of normalize_identity(doc)
    nres2,    \* outcome of normalize_identity applied to the document in nres
    \* a call ingest_identity(identity_url, timeout, validate, normalize):
    identity_url,  \* its identity_url argument
    validate,      \* its validate argument
    normalize,     \* its normalize argument
    pc,            \* where the call stands
    requests,      \* the number of requests.get calls it has issued
    response,      \* what the server answered: "none", "json" or "garbage"
    identity_doc,  \* its local variable identity
    exc,           \* the exception it raised ("" while it has raised none)
    stages,        \* the stages it has run, in the order it ran them
    loaded         \* what load_identity, the caller, comes to

ingest_vars ==
    <<identity_url, validate, normalize, pc, requests, response, identity_doc, exc,
      stages, loaded>>

vars == <<doc, vres, nres, nres2, ingest_vars>>

---------------------------------------------------------------------------
(* JSON-decoded values (what json / response.json() hands to the core):    *)
(* every value carries its Python type in t and its payload in v.          *)

JStr(s) == [t |-> "str", v |-> s]
JInt(n) == [t |-> "int", v |-> n]
\* a float; v is the value in tenths (JFloat(15) is 1.5)
JFloat(n) == [t |-> "float", v |-> n]
JBool(b) == [t |-> "bool", v |-> b]
JNull == [t |-> "null", v |-> "null"]
\* a list; v is the sequence of its elements
JList(q) == [t |-> "list", v |-> q]
\* a dict; v is the function from its keys to their values
JDict(f) == [t |-> "dict", v |-> f]

EmptyMap == [k \in {} |-> JNull]

---------------------------------------------------------------------------
(* Python primitives the code relies on.                                   *)

\* bool(x) is False: `not identity`
Falsy(x) ==
    \/ x.t = "null"
    \/ x.t = "bool" /\ x.v = FALSE
    \/ x.t \in {"int", "float"} /\ x.v = 0
    \/ x.t = "str" /\ x.v = ""
    \/ x.t = "list" /\ Len(x.v) = 0
    \/ x.t = "dict" /\ DOMAIN x.v = {}

\* isinstance(x, (int, float)): bool is a subclass of int
IsIntOrFloat(x) == x.t \in {"int", "float", "bool"}

\* the number a value compares as (True is 1, False is 0)
NumValue(x) == IF x.t = "bool" THEN (IF x.v THEN 1 ELSE 0) ELSE x.v

\* pairs <<k, s>> of the sample strings with k a proper substring of s
ProperSubstrings == {<<"created", "created-at">>, <<"theme", "theme-park">>}

\* `k in s` for two strings
IsSubstring(k, s) == k = s \/ <<k, s>> \in ProperSubstrings

\* `k in c` raises TypeError unless c is a container
InRaises(c) == c.t \notin {"dict", "list", "str"}

\* `k in c` for a string k: a key of a dict, an element of a list, a
\* substring of a string
In(k, c) ==
    CASE c.t = "dict" -> k \in DOMAIN c.v
      [] c.t = "list" -> \E i \in DOMAIN c.v : c.v[i] = JStr(k)
      [] c.t = "str" -> IsSubstring(k, c.v)
      [] OTHER -> FALSE

\* c[k] for a string k raises TypeError on a list or a string
SubscriptRaises(c) == c.t # "dict"

\* sep.join(q) for a sequence of strings
RECURSIVE Join(_, _)
Join(q, sep) ==
    IF Len(q) = 0 THEN ""
    ELSE IF Len(q) = 1 THEN q[1]
    ELSE q[1] \o sep \o Join(Tail(q), sep)

\* Overlay as a deep merge would do it: where both dicts hold a key, two dicts
\* are merged in turn and two lists are appended, instead of b's value
\* replacing a's
RECURSIVE OverlayDeepAppend(_, _)
OverlayDeepAppend(a, b) ==
    [k \in DOMAIN a \cup DOMAIN b |->
        IF k \notin DOMAIN b THEN a[k]
        ELSE IF k \notin DOMAIN a THEN b[k]
        ELSE IF a[k].t = "dict" /\ b[k].t = "dict"
             THEN JDict(OverlayDeepAppend(a[k].v, b[k].v))
        ELSE IF a[k].t = "list" /\ b[k].t = "list" THEN JList(a[k].v \o b[k].v)
        ELSE b[k]]

\* {**a, **b} on the key->value functions of two dicts: b's entries win
Overlay(a, b) ==
    [k \in DOMAIN a \cup DOMAIN b |-> IF k \in DOMAIN b THEN b[k] ELSE a[k]]

---------------------------------------------------------------------------
(* Outcome of a run of checks: the messages appended, or an exception.     *)

Ok(errs) == [raised |-> FALSE, exc |-> "", errors |-> errs]
Raised(e) == [raised |-> TRUE, exc |-> e, errors |-> <<>>]

\* run a, then b: an exception in a ends the run, b's messages follow a's
Then(a, b) ==
    IF a.raised THEN a
    ELSE IF b.raised THEN b
    ELSE Ok(a.errors \o b.errors)

---------------------------------------------------------------------------
(* Sample strings and what the patterns / the date parser make of them.    *)

\* re.match(r'^\d+\.\d+\.\d+$', s) succeeds
SemverStrings == {"0.1.0", "12.340.5"}

\* re.match(r'^[a-z]{2}(-[A-Z]{2})?$', s) succeeds
LanguageStrings == {"en", "fr", "en-GB"}

\* re.match(r'^[A-Z]{3}$', s) succeeds
CurrencyStrings == {"USD", "EUR"}

\* datetime.fromisoformat(s.replace('Z', '+00:00')) returns
IsoParseable == {"2024-01-01T00:00:00Z", "2024-01-01T00:00:00+00:00", "2024-01-01"}

\* 'T' in s
ContainsT == {"2024-01-01T00:00:00Z", "2024-01-01T00:00:00+00:00", "Tuesday"}

_is_valid_iso8601(date_string) ==
    IF date_string.t # "str" THEN FALSE
    ELSE IF date_string.v \notin IsoParseable THEN FALSE
    ELSE date_string.v \in ContainsT

---------------------------------------------------------------------------
(* The validator.                                                          *)

\* if '<field>' in sec and sec['<field>'] not in [<allowed>]: append msg
EnumCheck(sec, field, allowed, msg) ==
    IF InRaises(sec) THEN Raised("TypeError")
    ELSE IF ~In(field, sec) THEN Ok(<<>>)
    ELSE IF SubscriptRaises(sec) THEN Raised("TypeError")
    ELSE IF sec.v[field] \in {JStr(a) : a \in allowed} THEN Ok(<<>>)
    ELSE Ok(<<msg>>)

\* if '<field>' in sec and not re.match(<pattern>, sec['<field>']): append
\* msg; re.match raises TypeError on a value that is not a string
PatternCheck(sec, field, matching, msg) ==
    IF InRaises(sec) THEN Raised("TypeError")
    ELSE IF ~In(field, sec) THEN Ok(<<>>)
    ELSE IF SubscriptRaises(sec) THEN Raised("TypeError")
    ELSE IF sec.v[field].t # "str" THEN Raised("TypeError")
    ELSE IF sec.v[field].v \in matching THEN Ok(<<>>)
    ELSE Ok(<<msg>>)

valid_channels == {"in-app", "email", "push", "sms"}

\* ch not in valid_channels
IsInvalidChannel(ch) == ch \notin {JStr(a) : a \in valid_channels}

\* the v payloads of a sequence of values
Payloads(q) == [i \in DOMAIN q |-> q[i].v]

\* the 'channels' branch of the notifications block
ChannelsCheck(notifications) ==
    IF InRaises(notifications) THEN Raised("TypeError")
    ELSE IF ~In("channels", notifications) THEN Ok(<<>>)
    ELSE IF SubscriptRaises(notifications) THEN Raised("TypeError")
    ELSE LET channels == notifications.v["channels"] IN
         IF channels.t # "list" THEN Ok(<<"notifications.channels must be a list">>)
         ELSE LET invalid_channels == SelectSeq(channels.v, IsInvalidChannel) IN
              IF Len(invalid_channels) = 0 THEN Ok(<<>>)
              \* ", ".join raises TypeError on an item that is not a string
              ELSE IF \E i \in DOMAIN invalid_channels : invalid_channels[i].t # "str"
                   THEN Raised("TypeError")
              ELSE Ok(<<"Invalid notification channels: "
                        \o Join(Payloads(invalid_channels), ", ")>>)

\* the 'maxTransactionAmount' branch of the risk block
MaxTransactionAmountCheck(risk) ==
    IF InRaises(risk) THEN Raised("TypeError")
    ELSE IF ~In("maxTransactionAmount", risk) THEN Ok(<<>>)
    ELSE IF SubscriptRaises(risk) THEN Raised("TypeError")
    ELSE LET amount == risk.v["maxTransactionAmount"] IN
         IF ~IsIntOrFloat(amount) \/ NumValue(amount) < 0
         THEN Ok(<<"risk.maxTransactionAmount must be a non-negative number">>)
         ELSE Ok(<<>>)

ValidateUi(ui) ==
    Then(EnumCheck(ui, "theme", {"light", "dark", "auto", "high-contrast"},
                   "Invalid ui.theme value"),
    Then(EnumCheck(ui, "density", {"compact", "comfortable", "spacious"},
                   "Invalid ui.density value"),
         EnumCheck(ui, "fontSize", {"small", "medium", "large", "xlarge"},
                   "Invalid ui.fontSize value")))

ValidateInteraction(interaction) ==
    Then(EnumCheck(interaction, "tone",
                   {"formal", "casual", "friendly", "professional", "minimal"},
                   "Invalid interaction.tone value"),
    Then(EnumCheck(interaction, "verbosity",
                   {"minimal", "moderate", "detailed", "verbose"},
                   "Invalid interaction.verbosity value"),
         EnumCheck(interaction, "confirmationStyle",
                   {"always", "destructive-only", "never"},
                   "Invalid interaction.confirmationStyle value")))

ValidateAutomation(automation) ==
    Then(EnumCheck(automation, "level",
                   {"none", "suggestions", "auto-approve-safe", "aggressive"},
                   "Invalid automation.level value"),
         EnumCheck(automation, "maxAutomationScope",
                   {"local", "session", "account", "global"},
                   "Invalid automation.maxAutomationScope value"))

ValidateNotifications(notifications) ==
    Then(EnumCheck(notifications, "frequency",
                   {"realtime", "batched", "digest", "off"},
                   "Invalid notifications.frequency value"),
         ChannelsCheck(notifications))

ValidateContent(content) ==
    Then(PatternCheck(content, "language", LanguageStrings,
                      "Invalid content.language format (expected ISO 639-1)"),
    Then(EnumCheck(content, "dateFormat", {"ISO", "US", "EU", "relative"},
                   "Invalid content.dateFormat value"),
    Then(EnumCheck(content, "timeFormat", {"12h", "24h"},
                   "Invalid content.timeFormat value"),
         PatternCheck(content, "currency", CurrencyStrings,
                      "Invalid content.currency format (expected ISO 4217)"))))

ValidatePrivacy(privacy) ==
    EnumCheck(privacy, "dataSharing", {"none", "anonymized", "full"},
              "Invalid privacy.dataSharing value")

ValidateAccessibility(accessibility) ==
    EnumCheck(accessibility, "focusIndicators", {"minimal", "standard", "enhanced"},
              "Invalid accessibility.focusIndicators value")

ValidateRisk(risk) ==
    Then(EnumCheck(risk, "tolerance", {"conservative", "moderate", "aggressive"},
                   "Invalid risk.tolerance value"),
         MaxTransactionAmountCheck(risk))

\* the sub-sections _validate_preferences checks, in the order it checks them
ValidatedSections ==
    <<"ui", "interaction", "automation", "notifications", "content", "privacy",
      "accessibility", "risk">>

ValidateSection(name, sec) ==
    CASE name = "ui" -> ValidateUi(sec)
      [] name = "interaction" -> ValidateInteraction(sec)
      [] name = "automation" -> ValidateAutomation(sec)
      [] name = "notifications" -> ValidateNotifications(sec)
      [] name = "content" -> ValidateContent(sec)
      [] name = "privacy" -> ValidatePrivacy(sec)
      [] name = "accessibility" -> ValidateAccessibility(sec)
      [] name = "risk" -> ValidateRisk(sec)

\* the sub-section blocks from the i-th on: `if '<name>' in preferences: ...`
RECURSIVE ValidateSectionsFrom(_, _)
ValidateSectionsFrom(preferences, i) ==
    IF i > Len(ValidatedSections) THEN Ok(<<>>)
    ELSE Then(IF ValidatedSections[i] \in DOMAIN preferences.v
              THEN ValidateSection(ValidatedSections[i],
                                   preferences.v[ValidatedSections[i]])
              ELSE Ok(<<>>),
              ValidateSectionsFrom(preferences, i + 1))

_validate_preferences(preferences) ==
    IF preferences.t # "dict" THEN Ok(<<"Preferences must be a dictionary">>)
    ELSE ValidateSectionsFrom(preferences, 1)

_validate_behaviors(behaviors) ==
    IF behaviors.t # "dict" THEN Ok(<<"Behaviors must be a dictionary">>)
    ELSE Then(EnumCheck(behaviors, "workflow",
                        {"linear", "exploratory", "task-focused", "multi-tasking"},
                        "Invalid behaviors.workflow value"),
         Then(EnumCheck(behaviors, "learningStyle",
                        {"tutorial", "examples", "trial-and-error", "documentation"},
                        "Invalid behaviors.learningStyle value"),
              EnumCheck(behaviors, "decisionSpeed",
                        {"deliberate", "balanced", "quick"},
                        "Invalid behaviors.decisionSpeed value")))

\* the version block of validate_identity
VersionCheck(identity) ==
    IF "version" \notin DOMAIN identity.v
    THEN Ok(<<"Missing required field: version">>)
    ELSE IF identity.v["version"].t # "str"
    THEN Ok(<<"Field \"version\" must be a string">>)
    ELSE IF identity.v["version"].v \notin SemverStrings
    THEN Ok(<<"Field \"version\" must follow semantic versioning (e.g., \"0.1.0\")">>)
    ELSE Ok(<<>>)

\* the created / updated block of validate_identity for one of the two fields
DateCheck(metadata, field) ==
    IF InRaises(metadata) THEN Raised("TypeError")
    ELSE IF ~In(field, metadata)
    THEN Ok(<<"Missing required field: metadata." \o field>>)
    ELSE IF SubscriptRaises(metadata) THEN Raised("TypeError")
    ELSE IF ~_is_valid_iso8601(metadata.v[field])
    THEN Ok(<<"Field \"metadata." \o field \o "\" must be a valid ISO 8601 date-time">>)
    ELSE Ok(<<>>)

\* the metadata block of validate_identity
MetadataCheck(identity) ==
    IF "metadata" \notin DOMAIN identity.v
    THEN Ok(<<"Missing required field: metadata">>)
    ELSE Then(DateCheck(identity.v["metadata"], "created"),
              DateCheck(identity.v["metadata"], "updated"))

\* what a call of validate_identity / normalize_identity comes to
NotCalled == [st |-> "none", exc |-> "", valid |-> FALSE, errors |-> <<>>]
ValidationRaised(e) == [st |-> "raised", exc |-> e, valid |-> FALSE, errors |-> <<>>]
ValidationResult(errs) ==
    [st |-> "returned", exc |-> "", valid |-> (Len(errs) = 0), errors |-> errs]

validate_identity(identity) ==
    IF Falsy(identity) \/ identity.t # "dict"
    THEN ValidationResult(<<"Identity must be a dictionary">>)
    ELSE LET run ==
               Then(VersionCheck(identity),
               Then(MetadataCheck(identity),
               Then(IF "preferences" \in DOMAIN identity.v
                    THEN _validate_preferences(identity.v["preferences"])
                    ELSE Ok(<<>>),
                    IF "behaviors" \in DOMAIN identity.v
                    THEN _validate_behaviors(identity.v["behaviors"])
                    ELSE Ok(<<>>))))
         IN IF run.raised THEN ValidationRaised(run.exc)
            ELSE ValidationResult(run.errors)

---------------------------------------------------------------------------
(* The normalizer.                                                         *)

\* the sub-sections normalize_identity builds, and for each the fields it
\* reads with a default: prefs.get('<s>', {}).get('<field>', <default>)
Defaults ==
    [ui |-> [theme |-> JStr("auto"), density |-> JStr("comfortable"),
             fontSize |-> JStr("medium"), colorBlindMode |-> JBool(FALSE),
             reducedMotion |-> JBool(FALSE)],
     interaction |-> [tone |-> JStr("friendly"), verbosity |-> JStr("moderate"),
                      confirmationStyle |-> JStr("destructive-only"),
                      keyboardShortcuts |-> JBool(TRUE)],
     automation |-> [level |-> JStr("suggestions"), aiSuggestions |-> JBool(TRUE),
                     autoSave |-> JBool(TRUE), predictiveActions |-> JBool(FALSE),
                     maxAutomationScope |-> JStr("session")],
     notifications |-> [enabled |-> JBool(TRUE), frequency |-> JStr("batched"),
                        channels |-> JList(<<JStr("in-app")>>)],
     content |-> [language |-> JStr("en"), dateFormat |-> JStr("ISO"),
                  timeFormat |-> JStr("24h"), currency |-> JStr("USD"),
                  contentFilter |-> JStr("moderate")],
     privacy |-> [dataSharing |-> JStr("anonymized"), analytics |-> JBool(TRUE),
                  personalization |-> JBool(TRUE)],
     accessibility |-> [screenReader |-> JBool(FALSE), highContrast |-> JBool(FALSE),
                        focusIndicators |-> JStr("standard")],
     risk |-> [tolerance |-> JStr("moderate"), requireConfirmation |-> JBool(TRUE)]]

CanonicalSections == DOMAIN Defaults

\* d.get(k, default) on the key->value function of a dict
Get(f, k, default) == IF k \in DOMAIN f THEN f[k] ELSE default

\* x.get(...) raises AttributeError unless x is a dict; so does **x (TypeError)
NotAMapping(x) == x.t # "dict"

\* the dict display built for sub-section s:
\*   {'<field>': prefs.get(s, {}).get('<field>', <default>), ..., **(prefs.get(s, {}))}
BuildSection(prefs, s) ==
    LET sec == Get(prefs, s, JDict(EmptyMap)) IN
    JDict(Overlay([field \in DOMAIN Defaults[s] |-> Get(sec.v, field, Defaults[s][field])],
                  sec.v))

\* NormalizedPreferences without the trailing **prefs: only the canonical
\* sub-sections are emitted
NormalizedPreferencesBuiltOnly(prefs) ==
    [s \in CanonicalSections |-> BuildSection(prefs, s)]

\* the value of 'preferences' in the result: the built sub-sections, then **prefs
NormalizedPreferences(prefs) ==
    Overlay([s \in CanonicalSections |-> BuildSection(prefs, s)], prefs)

NormNotCalled == [st |-> "none", exc |-> "", doc |-> JNull]
NormRaised(e) == [st |-> "raised", exc |-> e, doc |-> JNull]
NormReturned(d) == [st |-> "returned", exc |-> "", doc |-> d]

normalize_identity(identity) ==
    IF Falsy(identity) \/ identity.t # "dict" THEN NormRaised("ValueError")
    ELSE LET prefs == Get(identity.v, "preferences", JDict(EmptyMap))
             behaviors == Get(identity.v, "behaviors", JDict(EmptyMap))
         IN \* prefs.get('ui', {}) on a prefs that is no dict
            IF NotAMapping(prefs) THEN NormRaised("AttributeError")
            \* prefs.get('<s>', {}).get(...) on a sub-section that is no dict
            ELSE IF \E s \in CanonicalSections :
                        NotAMapping(Get(prefs.v, s, JDict(EmptyMap)))
            THEN NormRaised("AttributeError")
            \* **(identity.get('behaviors', {})) on a behaviors that is no dict
            ELSE IF NotAMapping(behaviors) THEN NormRaised("TypeError")
            ELSE NormReturned(JDict(Overlay(identity.v,
                     [preferences |-> JDict(NormalizedPreferences(prefs.v)),
                      behaviors |-> JDict(Overlay(EmptyMap, behaviors.v))])))

---------------------------------------------------------------------------
(* The documents the model hands to the two functions: JSON values of      *)
(* every shape the code distinguishes, well-formed and malformed.          *)

\* longest notifications.channels list among the inputs
MaxChannels == 2

\* marks a key that is left out of a dict under construction
Absent == [t |-> "absent", v |-> "absent"]

\* the dict contents given by a sequence of <<key, value>> pairs, Absent
\* values left out
FromPairs(ps) ==
    LET present == {i \in DOMAIN ps : ps[i][2] # Absent}
    IN [k \in {ps[i][1] : i \in present} |->
           ps[CHOOSE i \in present : ps[i][1] = k][2]]

GoodDate == JStr("2024-01-01T00:00:00Z")

VersionOptions == {Absent, JStr("0.1.0"), JStr("1.0"), JInt(1)}

DateOptions == {Absent, GoodDate, JStr("2024-01-01"), JInt(5)}

MetadataOptions ==
    {Absent, JInt(5), JNull, JStr("created"), JStr("created-at"), JList(<<>>),
     JList(<<JStr("created")>>),
     JDict(FromPairs(<<<<"created", JStr("Tuesday")>>, <<"updated", GoodDate>>>>))}
    \cup {JDict(FromPairs(<<<<"created", c>>, <<"updated", u>>>>)) :
              c \in DateOptions, u \in DateOptions}

UiOptions ==
    {JInt(5), JNull, JStr("theme"), JList(<<>>), JList(<<JStr("theme")>>)}
    \cup {JDict(FromPairs(<<<<"theme", th>>, <<"density", d>>,
                            <<"reducedMotion", r>>, <<"customFlag", c>>>>)) :
              th \in {Absent, JStr("dark"), JStr("neon"), JInt(3)},
              d \in {Absent, JStr("compact"), JStr("huge")},
              r \in {Absent, JBool(TRUE)},
              c \in {Absent, JBool(TRUE)}}

InteractionOptions ==
    {JDict(FromPairs(<<<<"tone", tn>>, <<"verbosity", vb>>>>)) :
         tn \in {Absent, JStr("casual"), JStr("rude")},
         vb \in {Absent, JStr("loud")}}

AutomationOptions ==
    {JDict(FromPairs(<<<<"level", lv>>, <<"autoSave", sv>>>>)) :
         lv \in {Absent, JStr("none"), JStr("maximal")},
         sv \in {Absent, JBool(FALSE)}}

ChannelEntries ==
    {JStr("in-app"), JStr("email"), JStr("carrier-pigeon"), JStr("smoke-signal"),
     JInt(5)}

ChannelLists == UNION {[1..n -> ChannelEntries] : n \in 0..MaxChannels}

NotificationsOptions ==
    {JInt(5)}
    \cup {JDict(FromPairs(<<<<"frequency", fr>>, <<"channels", ch>>>>)) :
              fr \in {Absent, JStr("digest"), JStr("hourly")},
              ch \in {Absent, JStr("email")} \cup {JList(q) : q \in ChannelLists}}

ContentOptions ==
    {JDict(FromPairs(<<<<"language", lg>>, <<"timeFormat", tf>>,
                       <<"currency", cu>>>>)) :
         lg \in {Absent, JStr("en-GB"), JStr("english"), JInt(5)},
         tf \in {Absent, JStr("12h"), JStr("noon")},
         cu \in {Absent, JStr("EUR"), JStr("euro"), JNull}}

PrivacyOptions ==
    {JDict(FromPairs(<<<<"dataSharing", ds>>, <<"analytics", an>>>>)) :
         ds \in {Absent, JStr("full"), JStr("public")},
         an \in {Absent, JBool(FALSE)}}

AccessibilityOptions ==
    {JDict(FromPairs(<<<<"focusIndicators", fi>>, <<"screenReader", sr>>>>)) :
         fi \in {Absent, JStr("enhanced"), JStr("blinking")},
         sr \in {Absent, JBool(TRUE)}}

AmountOptions ==
    {Absent, JInt(0), JInt(100), JInt(-1), JFloat(15), JFloat(-5), JBool(TRUE),
     JBool(FALSE), JStr("100"), JNull, JList(<<>>)}

RiskOptions ==
    {JList(<<>>)}
    \cup {JDict(FromPairs(<<<<"tolerance", tl>>, <<"maxTransactionAmount", am>>>>)) :
              tl \in {Absent, JStr("moderate"), JStr("reckless")},
              am \in AmountOptions}

SectionOptions ==
    [ui |-> UiOptions, interaction |-> InteractionOptions,
     automation |-> AutomationOptions, notifications |-> NotificationsOptions,
     content |-> ContentOptions, privacy |-> PrivacyOptions,
     accessibility |-> AccessibilityOptions, risk |-> RiskOptions]

PreferencesOptions ==
    {Absent, JInt(5), JNull, JList(<<>>), JStr("ui"), JDict(EmptyMap)}
    \* one sub-section, of every shape
    \cup UNION {{JDict(FromPairs(<<<<s, sec>>>>)) : sec \in SectionOptions[s]} :
                    s \in CanonicalSections}
    \* several sub-sections and a caller-defined extension
    \cup {JDict(FromPairs(<<<<"ui", u>>, <<"notifications", n>>, <<"risk", r>>,
                            <<"labs", x>>>>)) :
              u \in {Absent, JDict([theme |-> JStr("neon")]),
                     JDict([theme |-> JStr("light"), fontSize |-> JStr("tiny"),
                            customFlag |-> JBool(TRUE)])},
              n \in {Absent, JDict([channels |-> JList(<<JStr("fax")>>)]),
                     JDict([enabled |-> JBool(FALSE)])},
              r \in {Absent, JDict([maxTransactionAmount |-> JInt(-1)]),
                     JDict([tolerance |-> JStr("reckless")])},
              x \in {Absent, JInt(7), JDict([beta |-> JBool(TRUE)])}}

BehaviorsOptions ==
    {Absent, JInt(5), JDict(EmptyMap), JDict([workflow |-> JStr("linear")]),
     JDict([workflow |-> JStr("chaotic"), pace |-> JInt(3)])}

\* mappings that vary the top-level fields
TopLevelDocs ==
    {JDict(FromPairs(<<<<"version", ver>>, <<"metadata", md>>, <<"preferences", p>>,
                       <<"behaviors", b>>, <<"owner", o>>>>)) :
         ver \in VersionOptions, md \in MetadataOptions,
         p \in {Absent, JInt(5), JDict([ui |-> JDict([theme |-> JStr("neon")])]),
                JDict([ui |-> JInt(5)])},
         b \in BehaviorsOptions, o \in {Absent, JStr("alice")}}

\* mappings that vary the preferences
PreferencesDocs ==
    {JDict(FromPairs(<<<<"version", ver>>, <<"metadata", md>>, <<"preferences", p>>,
                       <<"behaviors", b>>, <<"owner", o>>>>)) :
         ver \in {Absent, JStr("0.1.0")},
         md \in {JDict([created |-> GoodDate, updated |-> GoodDate])},
         p \in PreferencesOptions,
         b \in {Absent, JDict([workflow |-> JStr("chaotic"), pace |-> JInt(3)])},
         o \in {Absent, JStr("alice")}}

\* values that are no mapping
NonMappings ==
    {JNull, JInt(0), JInt(5), JBool(TRUE), JStr(""), JStr("version"), JList(<<>>),
     JList(<<JStr("version")>>)}

Inputs == TopLevelDocs \cup PreferencesDocs \cup NonMappings

---------------------------------------------------------------------------
(* The state machine: a document is drawn, and the validator and the       *)
(* normalizer are called on it; the normalizer is called again on what it  *)
(* returned.                                                               *)

Init ==
    /\ doc \in Inputs
    /\ vres = NotCalled
    /\ nres = NormNotCalled
    /\ nres2 = NormNotCalled
    /\ identity_url = JNull
    /\ validate = FALSE
    /\ normalize = FALSE
    /\ pc = "idle"
    /\ requests = 0
    /\ response = "none"
    /\ identity_doc = JNull
    /\ exc = ""
    /\ stages = <<>>
    /\ loaded = "none"

\* validation = validate_identity(identity)
Validate ==
    /\ vres.st = "none"
    /\ vres' = validate_identity(doc)
    /\ UNCHANGED <<doc, nres, nres2, ingest_vars>>

\* identity = normalize_identity(identity)
Normalize ==
    /\ nres.st = "none"
    /\ nres' = normalize_identity(doc)
    /\ UNCHANGED <<doc, vres, nres2, ingest_vars>>

\* normalize_identity(normalize_identity(identity)): the second call, on the
\* document the first returned
Renormalize ==
    /\ nres.st = "returned"
    /\ nres2.st = "none"
    /\ nres2' = normalize_identity(nres.doc)
    /\ UNCHANGED <<doc, vres, nres, ingest_vars>>

Next == Validate \/ Normalize \/ Renormalize

Spec == Init /\ [][Next]_vars

---------------------------------------------------------------------------
(* ingest_identity, stage by stage, and load_identity around it. The       *)
(* server's answer is drawn when the request is issued.                    *)

\* the sample strings s with s.startswith('https://')
HttpsUrls == {"https://example.com/identity.json"}

\* the identity_url arguments
Urls ==
    {JStr("https://example.com/identity.json"),
     JStr("http://example.com/identity.json"),
     JStr("HTTPS://example.com/identity.json"), JStr("ftp://example.com/identity.json"),
     JStr(""), JNull, JInt(5)}

IngestInit ==
    /\ doc = JNull
    /\ vres = NotCalled
    /\ nres = NormNotCalled
    /\ nres2 = NormNotCalled
    /\ identity_url \in Urls
    /\ validate \in BOOLEAN
    /\ normalize \in BOOLEAN
    /\ pc = "url"
    /\ requests = 0
    /\ response = "none"
    /\ identity_doc = JNull
    /\ exc = ""
    /\ stages = <<>>
    /\ loaded = "none"

\* raise e: the call ends
Raise(e) == pc' = "raised" /\ exc' = e

\* the two checks of identity_url
CheckUrl ==
    /\ pc = "url"
    /\ stages' = Append(stages, "url")
    /\ IF Falsy(identity_url) \/ identity_url.t # "str" THEN Raise("ValueError")
       ELSE IF identity_url.v \notin HttpsUrls THEN Raise("ValueError")
       ELSE pc' = "fetch" /\ exc' = exc
    /\ UNCHANGED <<doc, vres, nres, nres2, identity_url, validate, normalize,
                   requests, response, identity_doc, loaded>>

\* requests.get(...) and response.raise_for_status(): a timeout or another
\* RequestException becomes ValueError; otherwise a response is at hand,
\* whose body decodes to some JSON value or is no JSON
Fetch ==
    /\ pc = "fetch"
    /\ stages' = Append(stages, "fetch")
    /\ requests' = requests + 1
    /\ \/ /\ \E failure \in {"Timeout", "RequestException"} : Raise("ValueError")
          /\ UNCHANGED <<doc, response>>
       \/ /\ \E body \in Inputs : doc' = body
          /\ response' = "json"
          /\ pc' = "decode"
          /\ exc' = exc
       \/ /\ response' = "garbage"
          /\ pc' = "decode"
          /\ UNCHANGED <<doc, exc>>
    /\ UNCHANGED <<vres, nres, nres2, identity_url, validate, normalize, identity_doc,
                   loaded>>

\* identity = response.json(); json.JSONDecodeError becomes ValueError
Decode ==
    /\ pc = "decode"
    /\ stages' = Append(stages, "decode")
    /\ IF response = "garbage" THEN Raise("ValueError") /\ identity_doc' = identity_doc
       ELSE identity_doc' = doc /\ pc' = "validate" /\ exc' = exc
    /\ UNCHANGED <<doc, vres, nres, nres2, identity_url, validate, normalize,
                   requests, response, loaded>>

\* if validate: validation = validate_identity(identity); not valid raises
\* ValueError; an exception of validate_identity goes through as it is
ValidateStage ==
    /\ pc = "validate"
    /\ IF ~validate
       THEN pc' = "normalize" /\ UNCHANGED <<vres, exc, stages>>
       ELSE /\ vres' = validate_identity(identity_doc)
            /\ stages' = Append(stages, "validate")
            /\ IF vres'.st = "raised" THEN Raise(vres'.exc)
               ELSE IF ~vres'.valid THEN Raise("ValueError")
               ELSE pc' = "normalize" /\ exc' = exc
    /\ UNCHANGED <<doc, nres, nres2, identity_url, validate, normalize, requests,
                   response, identity_doc, loaded>>

\* if normalize: identity = normalize_identity(identity); its ValueError is
\* raised again as ValueError, any other exception goes through as it is
NormalizeStage ==
    /\ pc = "normalize"
    /\ IF ~normalize
       THEN pc' = "return" /\ UNCHANGED <<nres, exc, stages, identity_doc>>
       ELSE /\ nres' = normalize_identity(identity_doc)
            /\ stages' = Append(stages, "normalize")
            /\ IF nres'.st = "raised" THEN Raise(nres'.exc) /\ identity_doc' = identity_doc
               ELSE identity_doc' = nres'.doc /\ pc' = "return" /\ exc' = exc
    /\ UNCHANGED <<doc, vres, nres2, identity_url, validate, normalize, requests,
                   response, loaded>>

\* return identity
Return ==
    /\ pc = "return"
    /\ pc' = "returned"
    /\ UNCHANGED <<doc, vres, nres, nres2, identity_url, validate, normalize,
                   requests, response, identity_doc, exc, stages, loaded>>

\* load_identity: returns what ingest_identity returned, and raises
\* ValueError for whatever exception ingest_identity raised
LoadIdentity ==
    /\ pc \in {"returned", "raised"}
    /\ loaded = "none"
    /\ loaded' = IF pc = "raised" THEN "ValueError" ELSE "returned"
    /\ UNCHANGED <<doc, vres, nres, nres2, identity_url, validate, normalize, pc,
                   requests, response, identity_doc, exc, stages>>

IngestNext ==
    CheckUrl \/ Fetch \/ Decode \/ ValidateStage \/ NormalizeStage \/ Return
    \/ LoadIdentity

IngestSpec == IngestInit /\ [][IngestNext]_vars

---------------------------------------------------------------------------
(* Claims about validate_identity.                                         *)

\* the number of entries of a sequence that belong to a set
Count(q, S) == Cardinality({i \in DOMAIN q : q[i] \in S})

\* d is a mapping that holds a mapping under key k
HasMappingAt(d, k) == d.t = "dict" /\ k \in DOMAIN d.v /\ d.v[k].t = "dict"

\* C1: validate_identity never raises: called on any JSON value it returns a
\* result (a valid flag and an errors list); a schema violation is only ever
\* data in that result.
C1_ValidateNeverRaises == vres.st # "raised"

VersionMessages ==
    {"Missing required field: version", "Field \"version\" must be a string",
     "Field \"version\" must follow semantic versioning (e.g., \"0.1.0\")"}

\* C2: for every mapping without the key 'version' (the empty mapping too, and
\* mappings with other errors) the result validate_identity returns has
\* valid = false and exactly one version message, the one that names the
\* missing field. (That the call returns at all is C1.)
C2_MissingVersionReported ==
    (vres.st = "returned" /\ doc.t = "dict" /\ "version" \notin DOMAIN doc.v)
    => /\ ~vres.valid
       /\ Count(vres.errors, VersionMessages) = 1
       /\ Count(vres.errors, {"Missing required field: version"}) = 1

AmountMessage == "risk.maxTransactionAmount must be a non-negative number"

\* a non-negative integer or floating-point number; a boolean is no number
IsNonNegativeNumber(x) == x.t \in {"int", "float"} /\ x.v >= 0

\* C7: risk.maxTransactionAmount is rejected unless it is a non-negative
\* integer or float: a boolean, a negative number or a non-number yields
\* exactly one AmountMessage, a non-negative non-boolean number yields none.
C7_AmountMustBeNonNegativeNumber ==
    (/\ vres.st = "returned"
     /\ HasMappingAt(doc, "preferences")
     /\ HasMappingAt(doc.v["preferences"], "risk")
     /\ "maxTransactionAmount" \in DOMAIN doc.v["preferences"].v["risk"].v)
    => Count(vres.errors, {AmountMessage})
         = IF IsNonNegativeNumber(doc.v["preferences"].v["risk"].v["maxTransactionAmount"])
           THEN 0 ELSE 1

\* the field checks of a preferences sub-section, in checking order: the
\* sub-section, the field, the kind of check and the values it allows
FieldChecks ==
    <<[sec |-> "ui", field |-> "theme", kind |-> "enum",
       allowed |-> {"light", "dark", "auto", "high-contrast"}],
      [sec |-> "ui", field |-> "density", kind |-> "enum",
       allowed |-> {"compact", "comfortable", "spacious"}],
      [sec |-> "ui", field |-> "fontSize", kind |-> "enum",
       allowed |-> {"small", "medium", "large", "xlarge"}],
      [sec |-> "interaction", field |-> "tone", kind |-> "enum",
       allowed |-> {"formal", "casual", "friendly", "professional", "minimal"}],
      [sec |-> "interaction", field |-> "verbosity", kind |-> "enum",
       allowed |-> {"minimal", "moderate", "detailed", "verbose"}],
      [sec |-> "interaction", field |-> "confirmationStyle", kind |-> "enum",
       allowed |-> {"always", "destructive-only", "never"}],
      [sec |-> "automation", field |-> "level", kind |-> "enum",
       allowed |-> {"none", "suggestions", "auto-approve-safe", "aggressive"}],
      [sec |-> "automation", field |-> "maxAutomationScope", kind |-> "enum",
       allowed |-> {"local", "session", "account", "global"}],
      [sec |-> "notifications", field |-> "frequency", kind |-> "enum",
       allowed |-> {"realtime", "batched", "digest", "off"}],
      [sec |-> "notifications", field |-> "channels", kind |-> "channels",
       allowed |-> {"in-app", "email", "push", "sms"}],
      [sec |-> "content", field |-> "language", kind |-> "language",
       allowed |-> LanguageStrings],
      [sec |-> "content", field |-> "dateFormat", kind |-> "enum",
       allowed |-> {"ISO", "US", "EU", "relative"}],
      [sec |-> "content", field |-> "timeFormat", kind |-> "enum",
       allowed |-> {"12h", "24h"}],
      [sec |-> "content", field |-> "currency", kind |-> "currency",
       allowed |-> CurrencyStrings],
      [sec |-> "privacy", field |-> "dataSharing", kind |-> "enum",
       allowed |-> {"none", "anonymized", "full"}],
      [sec |-> "accessibility", field |-> "focusIndicators", kind |-> "enum",
       allowed |-> {"minimal", "standard", "enhanced"}],
      [sec |-> "risk", field |-> "tolerance", kind |-> "enum",
       allowed |-> {"conservative", "moderate", "aggressive"}],
      [sec |-> "risk", field |-> "maxTransactionAmount", kind |-> "amount",
       allowed |-> {}]>>

BehaviorChecks ==
    <<[sec |-> "behaviors", field |-> "workflow", kind |-> "enum",
       allowed |-> {"linear", "exploratory", "task-focused", "multi-tasking"}],
      [sec |-> "behaviors", field |-> "learningStyle", kind |-> "enum",
       allowed |-> {"tutorial", "examples", "trial-and-error", "documentation"}],
      [sec |-> "behaviors", field |-> "decisionSpeed", kind |-> "enum",
       allowed |-> {"deliberate", "balanced", "quick"}]>>

\* the entries of a channels list outside the allowed set, in list order
InvalidEntries(q, allowed) ==
    LET bad == {i \in DOMAIN q : q[i] \notin {JStr(a) : a \in allowed}}
        RECURSIVE From(_)
        From(i) == IF i > Len(q) THEN <<>>
                   ELSE (IF i \in bad THEN <<q[i]>> ELSE <<>>) \o From(i + 1)
    IN From(1)

ChannelsMessage(invalid) ==
    "Invalid notification channels: " \o Join(Payloads(invalid), ", ")

\* the message, if any, that check c owes for the value x of its field
FieldMessage(c, x) ==
    CASE c.kind = "enum" ->
           IF x \in {JStr(a) : a \in c.allowed} THEN <<>>
           ELSE <<"Invalid " \o c.sec \o "." \o c.field \o " value">>
      [] c.kind = "language" ->
           IF x.t = "str" /\ x.v \in c.allowed THEN <<>>
           ELSE <<"Invalid content.language format (expected ISO 639-1)">>
      [] c.kind = "currency" ->
           IF x.t = "str" /\ x.v \in c.allowed THEN <<>>
           ELSE <<"Invalid content.currency format (expected ISO 4217)">>
      [] c.kind = "channels" ->
           IF x.t # "list" THEN <<"notifications.channels must be a list">>
           ELSE IF Len(InvalidEntries(x.v, c.allowed)) = 0 THEN <<>>
           ELSE <<ChannelsMessage(InvalidEntries(x.v, c.allowed))>>
      [] c.kind = "amount" ->
           IF IsNonNegativeNumber(x) THEN <<>> ELSE <<AmountMessage>>

\* the messages the checks of a sequence owe for the mapping holding their
\* sub-sections (a field counts as given when its sub-section is a mapping
\* that has it)
RECURSIVE MessagesFrom(_, _, _)
MessagesFrom(checks, i, holder) ==
    IF i > Len(checks) THEN <<>>
    ELSE LET c == checks[i] IN
         (IF HasMappingAt(JDict(holder), c.sec) /\ c.field \in DOMAIN holder[c.sec].v
          THEN FieldMessage(c, holder[c.sec].v[c.field])
          ELSE <<>>) \o MessagesFrom(checks, i + 1, holder)

\* the message owed for metadata.created / metadata.updated
DateMessage(metadata, field) ==
    IF metadata.t # "dict" \/ field \notin DOMAIN metadata.v
    THEN <<"Missing required field: metadata." \o field>>
    ELSE IF _is_valid_iso8601(metadata.v[field]) THEN <<>>
    ELSE <<"Field \"metadata." \o field \o "\" must be a valid ISO 8601 date-time">>

\* one message per failing check of mapping d, in the fixed order version,
\* metadata (created, updated), preferences (sub-sections and fields in
\* declared order), behaviors
ExpectedErrors(d) ==
    (IF "version" \notin DOMAIN d.v THEN <<"Missing required field: version">>
     ELSE IF d.v["version"].t # "str" THEN <<"Field \"version\" must be a string">>
     ELSE IF d.v["version"].v \notin SemverStrings
     THEN <<"Field \"version\" must follow semantic versioning (e.g., \"0.1.0\")">>
     ELSE <<>>)
    \o (IF "metadata" \notin DOMAIN d.v THEN <<"Missing required field: metadata">>
        ELSE DateMessage(d.v["metadata"], "created")
             \o DateMessage(d.v["metadata"], "updated"))
    \o (IF "preferences" \notin DOMAIN d.v THEN <<>>
        ELSE IF d.v["preferences"].t # "dict" THEN <<"Preferences must be a dictionary">>
        ELSE MessagesFrom(FieldChecks, 1, d.v["preferences"].v))
    \o (IF "behaviors" \notin DOMAIN d.v THEN <<>>
        ELSE IF d.v["behaviors"].t # "dict" THEN <<"Behaviors must be a dictionary">>
        ELSE MessagesFrom(BehaviorChecks, 1, d.v))

\* C8: on a mapping validate_identity does not stop at the first error: the
\* errors it returns are one message per failing check, in the fixed order
\* version, metadata (created then updated), preferences, behaviors, none
\* suppressing another (so two malformed dates give two errors).
C8_AllChecksReportedInOrder ==
    (vres.st = "returned" /\ doc.t = "dict") => vres.errors = ExpectedErrors(doc)

\* the document holds a list under preferences.notifications.channels
HasChannelsList ==
    /\ HasMappingAt(doc, "preferences")
    /\ HasMappingAt(doc.v["preferences"], "notifications")
    /\ "channels" \in DOMAIN doc.v["preferences"].v["notifications"].v
    /\ doc.v["preferences"].v["notifications"].v["channels"].t = "list"

DocChannels == doc.v["preferences"].v["notifications"].v["channels"].v

\* f without key k
Without(f, k) == [x \in DOMAIN f \ {k} |-> f[x]]

\* the document with preferences.notifications.channels left out
DocWithoutChannels ==
    JDict([doc.v EXCEPT !["preferences"] =
        JDict([doc.v["preferences"].v EXCEPT !["notifications"] =
            JDict(Without(doc.v["preferences"].v["notifications"].v, "channels"))])])

\* C9: a channels list with one or more entries outside the allowed set adds
\* exactly one error to what the rest of the document yields, and that error
\* lists all the invalid entries, comma-joined.
C9_OneAggregateChannelsError ==
    (/\ vres.st # "none"
     /\ HasChannelsList
     /\ Len(InvalidEntries(DocChannels, valid_channels)) > 0
     /\ validate_identity(DocWithoutChannels).st = "returned")
    => /\ vres.st = "returned"
       /\ Len(vres.errors) = Len(validate_identity(DocWithoutChannels).errors) + 1
       /\ Count(vres.errors,
                {ChannelsMessage(InvalidEntries(DocChannels, valid_channels))}) = 1

---------------------------------------------------------------------------
(* Claims about normalize_identity.                                        *)

\* the caller's preferences mapping ({} when the document has none)
CallerPrefs == IF HasMappingAt(doc, "preferences") THEN doc.v["preferences"].v ELSE EmptyMap

\* the 'preferences' mapping of the document normalize_identity returned
OutPrefs == nres.doc.v["preferences"].v

\* C3: when the caller's preferences hold a canonical sub-section s, the
\* returned preferences[s] holds every field with a declared default: the
\* caller's value where the caller gave one, the default otherwise.
C3_SectionDefaultsFilled ==
    nres.st = "returned"
    => \A s \in CanonicalSections \cap DOMAIN CallerPrefs :
         \A field \in DOMAIN Defaults[s] :
           /\ field \in DOMAIN OutPrefs[s].v
           /\ OutPrefs[s].v[field] = Get(CallerPrefs[s].v, field, Defaults[s][field])

\* C4: a mapping with neither preferences nor behaviors (the empty mapping in
\* particular) normalizes to a document whose preferences hold every
\* canonical sub-section with every declared field at its default, and whose
\* behaviors is the empty mapping.
C4_NoPreferencesGetsAllDefaults ==
    (/\ nres.st # "none"
     /\ doc.t = "dict"
     /\ "preferences" \notin DOMAIN doc.v
     /\ "behaviors" \notin DOMAIN doc.v)
    => /\ nres.st = "returned"
       /\ \A s \in CanonicalSections : \A field \in DOMAIN Defaults[s] :
            OutPrefs[s].v[field] = Defaults[s][field]
       /\ nres.doc.v["behaviors"] = JDict(EmptyMap)

\* C5: normalize_identity raises (ValueError) only when its input is no
\* mapping: on every mapping, whatever the shape of its preferences, their
\* sub-sections and its behaviors, it returns a document.
C5_NormalizeRaisesOnlyOnNonMapping ==
    nres.st # "none"
    => IF doc.t = "dict" THEN nres.st = "returned"
       ELSE nres.st = "raised" /\ nres.exc = "ValueError"

\* C6: normalize_identity is idempotent: the second call, on the document the
\* first call returned, returns too and returns that same document.
C6_NormalizeIdempotent ==
    nres2.st # "none" => (nres2.st = "returned" /\ nres2.doc = nres.doc)

\* C6 witness: both calls made on a document with a partly filled ui
\* sub-section, the first call having added to it.
C6_Witness ==
    /\ nres2.st = "returned"
    /\ "ui" \in DOMAIN CallerPrefs
    /\ "theme" \in DOMAIN CallerPrefs["ui"].v
    /\ "notifications" \notin DOMAIN CallerPrefs
    /\ nres.doc # doc

\* C10: normalize_identity drops or alters nothing the caller supplied: every
\* top-level key other than preferences and behaviors keeps its value, every
\* preferences entry that is no canonical sub-section is kept unchanged, every
\* field the caller gave in a canonical sub-section (the ones the schema does
\* not know among them) is kept unchanged, and behaviors is the caller's
\* mapping, or the empty mapping when there is none.
C10_CallerDataKept ==
    nres.st = "returned"
    => /\ \A k \in DOMAIN doc.v \ {"preferences", "behaviors"} :
            k \in DOMAIN nres.doc.v /\ nres.doc.v[k] = doc.v[k]
       /\ \A k \in DOMAIN CallerPrefs \ CanonicalSections :
            k \in DOMAIN OutPrefs /\ OutPrefs[k] = CallerPrefs[k]
       /\ \A s \in DOMAIN CallerPrefs \cap CanonicalSections :
            \A field \in DOMAIN CallerPrefs[s].v :
              field \in DOMAIN OutPrefs[s].v /\ OutPrefs[s].v[field] = CallerPrefs[s].v[field]
       /\ nres.doc.v["behaviors"] = Get(doc.v, "behaviors", JDict(EmptyMap))

\* C10 witness: a document was normalized that has a custom top-level key, a
\* caller-defined preferences entry, an unknown field in a canonical
\* sub-section, and behaviors of its own.
C10_Witness ==
    /\ nres.st = "returned"
    /\ "owner" \in DOMAIN doc.v
    /\ "labs" \in DOMAIN CallerPrefs
    /\ "ui" \in DOMAIN CallerPrefs
    /\ "customFlag" \in DOMAIN CallerPrefs["ui"].v
    /\ "behaviors" \in DOMAIN doc.v
    /\ "pace" \in DOMAIN doc.v["behaviors"].v


---------------------------------------------------------------------------
(* The ingest pipeline.                                                    *)

\* the stages of a call in their fixed order, the optional ones as enabled
StageOrder ==
    <<"url", "fetch", "decode">>
    \o (IF validate THEN <<"validate">> ELSE <<>>)
    \o (IF normalize THEN <<"normalize">> ELSE <<>>)

\* the stages run so far are the first ones of the fixed order
C11_StagesInOrder ==
    /\ Len(stages) <= Len(StageOrder)
    /\ stages = SubSeq(StageOrder, 1, Len(stages))

\* a call that raised stopped at the stage it had reached, and one that
\* returned ran every stage
C11_FailureStopsPipeline ==
    /\ pc = "returned" => stages = StageOrder
    /\ (pc = "raised" /\ stages[Len(stages)] # "normalize") => nres.st = "none"
    /\ (pc = "raised" /\ stages[Len(stages)] \notin {"validate", "normalize"})
           => vres.st = "none"

\* a request is issued only for a string that begins with 'https://'
C11_NoRequestUnlessHttps ==
    requests > 0 => identity_url.t = "str" /\ identity_url.v \in HttpsUrls

\* with validate=True, a document the validator reports invalid is neither
\* normalized nor returned
C11_InvalidNeverNormalizedOrReturned ==
    (/\ validate
     /\ response = "json"
     /\ validate_identity(doc).st = "returned"
     /\ ~validate_identity(doc).valid)
        => nres.st = "none" /\ pc \notin {"return", "returned"} /\ loaded # "returned"

\* the exception of a call that raised is ValueError
C11_FailingStageRaisesValueError == pc = "raised" => exc = "ValueError"

\* C11: ingest_identity runs its stages in the fixed order URL check, fetch,
\* JSON decode, validate (if enabled), normalize (if enabled); a failing stage
\* raises ValueError and stops the pipeline; no request is issued for a URL
\* that does not begin with 'https://'; and with validate=True a document that
\* validate_identity reports invalid is never normalized and never returned.
C11_IngestPipeline ==
    /\ C11_StagesInOrder
    /\ C11_FailureStopsPipeline
    /\ C11_NoRequestUnlessHttps
    /\ C11_InvalidNeverNormalizedOrReturned
    /\ C11_FailingStageRaisesValueError

\* the validator accepts x
IsValid(x) == validate_identity(x).st = "returned" /\ validate_identity(x).valid

\* normalize_identity, called on a document the validator accepts, returns a
\* document the validator accepts
C12_NormalizedValidStaysValid ==
    (response = "json" /\ nres.st # "none" /\ IsValid(doc))
        => nres.st = "returned" /\ IsValid(nres.doc)

\* what a call with validate=True and normalize=True returns is valid
C12_ReturnedIsValid ==
    (pc = "returned" /\ validate /\ normalize) => IsValid(identity_doc)

\* C12: normalization preserves validity: for every document the validator
\* reports valid, normalize_identity returns a document the validator reports
\* valid, so what ingest_identity returns with validate=True and
\* normalize=True is a valid document.
C12_NormalizationPreservesValidity ==
    C12_NormalizedValidStaysValid /\ C12_ReturnedIsValid

\* where normalize_identity returns on a valid document, its result is valid
C12_ValidityKeptWhereNormalizeReturns ==
    (response = "json" /\ nres.st = "returned" /\ IsValid(doc)) => IsValid(nres.doc)

====
